---- MODULE Spec2Model ----
(***************************************************************************)
(* Model of ml-service/scoring_service.py: the module-level model loader   *)
(* (primary identifier, then fallback) and the POST /score handler         *)
(* score_handwriting, with the request-body validation that the            *)
(* ScoringRequest parameter type puts in front of the handler.             *)
(*                                                                         *)
(* Numbers are fixed point.  Logits are integers (unit 1.0); exp values    *)
(* are in units of 1/ExpScale, probabilities in units of 1/PScale and      *)
(* scores in units of 1/SScale.  Only finite logits are modelled.          *)
(* Strings are ASCII: the two Arabic negative prompts are written in       *)
(* transliteration.                                                        *)
(***************************************************************************)
EXTENDS Integers, Sequences, FiniteSets, TLC

(* ---- bounds ---- *)
MaxRequests == 2
MaxLogit == 1

(* ---- fixed-point scales ---- *)
ExpScale == 1000
PScale == 1000000
SScale == 10000
EInv == 368

(* ---- program constants ---- *)
PRIMARY_ID == "Arabic-Clip/araclip"
FALLBACK_ID == "openai/clip-vit-base-patch32"
SCRIBBLE == "kharbasha"
EMPTY == "farigh"

(* ---- request inputs ---- *)
(* MISSING: the field is absent from the body.  NULL: the field is JSON   *)
(* null.  BAD_B64 has a length that base64 rejects; HELLO_B64 is the       *)
(* base64 of the text "hello"; PNG_B64 stands for the base64 of a complete *)
(* PNG file.                                                               *)
MISSING == "<missing>"
NULL == "<null>"
BAD_B64 == "not-valid-base64!!"
HELLO_B64 == "aGVsbG8="
PNG_B64 == "iVBORw0KGgo..."
ImageValues == {MISSING, BAD_B64, HELLO_B64, PNG_B64}
TargetValues == {NULL, "alif"}
Bodies == [image_base64 : ImageValues, target_text : TargetValues]

Images == {"png"}
Texts == {"alif", SCRIBBLE, EMPTY}
LogitVals == (0 - MaxLogit)..MaxLogit
Weights == [Images \X Texts -> LogitVals]
NoWeights == [k \in Images \X Texts |-> 0]
Unloaded == [id |-> "", w |-> NoWeights]
EnvOutcomes == {"ok", "processor_raises", "model_raises"}

VARIABLES pc, MODEL_ID, processor, model, loads, inflight, responses, received

vars == <<pc, MODEL_ID, processor, model, loads, inflight, responses, received>>
globals == <<MODEL_ID, processor, model>>

(***************************************************************************)
(* Pure functions of the handler                                           *)
(***************************************************************************)

IsString(v) == v \notin {MISSING, NULL}

(* fault variant: the body is not validated *)
ScoringRequest_unvalidated(body) == TRUE

(* pydantic validation of the body against ScoringRequest: both fields     *)
(* are required and must be strings.                                       *)
ScoringRequest(body) ==
    /\ IsString(body.image_base64)
    /\ IsString(body.target_text)

(* base64.b64decode(request.image_base64): raises binascii.Error on a     *)
(* string it cannot decode, else returns the bytes                        *)
b64decode(s) ==
    CASE s = BAD_B64 -> [raised |-> "Incorrect padding", value |-> ""]
      [] s = HELLO_B64 -> [raised |-> "", value |-> "hello"]
      [] s = PNG_B64 -> [raised |-> "", value |-> "\\x89PNG"]
      [] OTHER -> [raised |-> "Incorrect padding", value |-> ""]

(* Image.open(io.BytesIO(image_data)) *)
Image_open(bytes) ==
    IF bytes = "\\x89PNG"
    THEN [raised |-> "", value |-> "png"]
    ELSE [raised |-> "cannot identify image file", value |-> ""]

(* fault variant: only the target prompt is built *)
text_prompts_single(target_text) == <<target_text>>

(* fault variant: the target is not the first prompt *)
text_prompts_swapped(target_text) == <<SCRIBBLE, target_text, EMPTY>>

text_prompts(target_text) == <<target_text, SCRIBBLE, EMPTY>>

(* outputs of the model call: one row of logits, one column per prompt,    *)
(* and the cosine similarities of the normalised embeddings (the logits    *)
(* divided by the logit scale, here MaxLogit), in units of 1/SScale.       *)
forward(m, image, prompts) ==
    [logits_per_image |-> <<[i \in 1..Len(prompts) |-> m.w[<<image, prompts[i]>>]]>>,
     cosine |-> <<[i \in 1..Len(prompts) |-> (m.w[<<image, prompts[i]>>] * SScale) \div MaxLogit]>>]

RECURSIVE Exp(_)
Exp(d) == IF d >= 0 THEN ExpScale ELSE (Exp(d + 1) * EInv) \div ExpScale

RECURSIVE SumSeq(_)
SumSeq(s) == IF s = <<>> THEN 0 ELSE Head(s) + SumSeq(Tail(s))

MaxOf(row) == CHOOSE x \in {row[i] : i \in DOMAIN row} :
                  \A j \in DOMAIN row : row[j] <= x

(* fault variant: exponentials that are not divided by their sum *)
softmax_unnormalised(logits) ==
    [r \in DOMAIN logits |->
        [i \in DOMAIN logits[r] |-> Exp(logits[r][i] - MaxOf(logits[r])) * (PScale \div ExpScale)]]

(* logits_per_image.softmax(dim=1) *)
softmax(logits) ==
    [r \in DOMAIN logits |->
        LET row == logits[r]
            e == [i \in DOMAIN row |-> Exp(row[i] - MaxOf(row))]
        IN [i \in DOMAIN row |-> (e[i] * PScale) \div SumSeq(e)]]

(* fault variant: the score is returned unrounded *)
round_none(x, ndigits) == x

(* round(score, ndigits): nearest multiple of 10^-ndigits, ties to even *)
round(x, ndigits) ==
    LET q == IF ndigits = 2 THEN SScale \div 100 ELSE SScale
        lo == (x \div q) * q
        r == x - lo
    IN  IF 2 * r < q THEN lo
        ELSE IF 2 * r > q THEN lo + q
        ELSE IF (lo \div q) % 2 = 0 THEN lo ELSE lo + q

(* fault variant: the feedback does not interpolate MODEL_ID *)
Feedback_no_id(id, score) ==
    <<"Scored using ", "the model", ". Probability match: ",
      ToString(round(score, 2) \div SScale), ".",
      ToString((round(score, 2) % SScale) \div (SScale \div 100)), "%">>

(* f"Scored using {MODEL_ID}. Probability match: {round(score, 2)}%" *)
Feedback(id, score) ==
    <<"Scored using ", id, ". Probability match: ",
      ToString(round(score, 2) \div SScale), ".",
      ToString((round(score, 2) % SScale) \div (SScale \div 100)), "%">>

NoLocals == [text_prompts |-> <<>>, logits |-> <<>>, probs |-> <<>>,
             score |-> 0, method |-> "none", raised |-> ""]

(* fault variant: the exception text is not passed on *)
HTTPException_generic(msg, body, locals) ==
    [body |-> body, status |-> 500, score |-> 0, feedback |-> <<>>,
     detail |-> "Internal Server Error", locals |-> [locals EXCEPT !.raised = msg]]

(* except Exception as e: raise HTTPException(status_code=500, detail=str(e)) *)
HTTPException(msg, body, locals) ==
    [body |-> body, status |-> 500, score |-> 0, feedback |-> <<>>,
     detail |-> msg, locals |-> [locals EXCEPT !.raised = msg]]

(* FastAPI's answer to a body that fails ScoringRequest validation *)
RequestValidationError(body) ==
    [body |-> body, status |-> 422, score |-> 0, feedback |-> <<>>,
     detail |-> "field required or not a valid string", locals |-> NoLocals]

(* the with torch.no_grad() block and the return statement *)
Score(id, m, image, prompts, body) ==
    LET outputs == forward(m, image, prompts)
        logits_per_image == outputs.logits_per_image
        probs == softmax(logits_per_image)
        score0 == (probs[1][1] * 100) \div (PScale \div SScale)
        single == Len(prompts) = 1
        score == IF single THEN outputs.cosine[1][1] * 100 ELSE score0
    IN  [body |-> body, status |-> 200, score |-> round(score, 2),
         feedback |-> Feedback(id, score), detail |-> "",
         locals |-> [text_prompts |-> prompts, logits |-> logits_per_image,
                     probs |-> probs, score |-> score,
                     method |-> IF single THEN "cosine" ELSE "softmax",
                     raised |-> ""]]

(* the body of score_handwriting for one request and one outcome of the   *)
(* environment (whether the processor call or the model call raises)      *)
Handle(id, m, body, env) ==
    LET decoded == b64decode(body.image_base64)
        image == Image_open(decoded.value)
        prompts == text_prompts(body.target_text)
        withPrompts == [NoLocals EXCEPT !.text_prompts = prompts]
    IN  IF decoded.raised # "" THEN HTTPException(decoded.raised, body, NoLocals)
        ELSE IF image.raised # "" THEN HTTPException(image.raised, body, NoLocals)
        ELSE IF env = "processor_raises"
             THEN HTTPException("processor failed", body, withPrompts)
        ELSE IF env = "model_raises"
             THEN HTTPException("model failed", body, withPrompts)
        ELSE Score(id, m, image.value, prompts, body)

(***************************************************************************)
(* State machine                                                           *)
(***************************************************************************)

Init ==
    /\ pc = "load_processor"
    /\ MODEL_ID = PRIMARY_ID
    /\ processor = ""
    /\ model = Unloaded
    /\ loads = <<>>
    /\ inflight = {}
    /\ responses = {}
    /\ received = 0

(* processor = AutoProcessor.from_pretrained(MODEL_ID) *)
LoadProcessorOk ==
    /\ pc = "load_processor"
    /\ processor' = MODEL_ID
    /\ loads' = Append(loads, <<MODEL_ID, "processor", TRUE>>)
    /\ pc' = "load_model"
    /\ UNCHANGED <<MODEL_ID, model, inflight, responses, received>>

(* model = AutoModel.from_pretrained(MODEL_ID) *)
LoadModelOk ==
    /\ pc = "load_model"
    /\ \E w \in Weights : model' = [id |-> MODEL_ID, w |-> w]
    /\ loads' = Append(loads, <<MODEL_ID, "model", TRUE>>)
    /\ pc' = "serving"
    /\ UNCHANGED <<MODEL_ID, processor, inflight, responses, received>>

(* either primary load raises: the except branch rebinds MODEL_ID *)
LoadPrimaryFail ==
    /\ pc \in {"load_processor", "load_model"}
    /\ loads' = Append(loads, <<MODEL_ID, IF pc = "load_processor" THEN "processor" ELSE "model", FALSE>>)
    /\ MODEL_ID' = FALLBACK_ID
    /\ pc' = "fallback_processor"
    /\ UNCHANGED <<processor, model, inflight, responses, received>>

(* processor = CLIPProcessor.from_pretrained(MODEL_ID) *)
LoadFallbackProcessorOk ==
    /\ pc = "fallback_processor"
    /\ processor' = MODEL_ID
    /\ loads' = Append(loads, <<MODEL_ID, "processor", TRUE>>)
    /\ pc' = "fallback_model"
    /\ UNCHANGED <<MODEL_ID, model, inflight, responses, received>>

(* model = CLIPModel.from_pretrained(MODEL_ID) *)
LoadFallbackModelOk ==
    /\ pc = "fallback_model"
    /\ \E w \in Weights : model' = [id |-> MODEL_ID, w |-> w]
    /\ loads' = Append(loads, <<MODEL_ID, "model", TRUE>>)
    /\ pc' = "serving"
    /\ UNCHANGED <<MODEL_ID, processor, inflight, responses, received>>

(* fault variant: a failed fallback load is swallowed and the server starts *)
LoadFallbackFail_swallowed ==
    /\ pc \in {"fallback_processor", "fallback_model"}
    /\ loads' = Append(loads, <<MODEL_ID, IF pc = "fallback_processor" THEN "processor" ELSE "model", FALSE>>)
    /\ pc' = "serving"
    /\ UNCHANGED <<MODEL_ID, processor, model, inflight, responses, received>>

(* a fallback load raises: the exception leaves the module, the process   *)
(* ends before uvicorn.run                                                 *)
LoadFallbackFail ==
    /\ pc \in {"fallback_processor", "fallback_model"}
    /\ loads' = Append(loads, <<MODEL_ID, IF pc = "fallback_processor" THEN "processor" ELSE "model", FALSE>>)
    /\ pc' = "failed"
    /\ UNCHANGED <<MODEL_ID, processor, model, inflight, responses, received>>

(* a client POSTs /score; the listener exists only once uvicorn.run runs *)
Receive(body) ==
    /\ pc = "serving"
    /\ received < MaxRequests
    /\ body \notin inflight
    /\ inflight' = inflight \cup {body}
    /\ received' = received + 1
    /\ UNCHANGED <<pc, MODEL_ID, processor, model, loads, responses>>

(* the body does not validate as a ScoringRequest: the handler never runs *)
RejectInvalid(body) ==
    /\ pc = "serving"
    /\ body \in inflight
    /\ ~ScoringRequest(body)
    /\ inflight' = inflight \ {body}
    /\ responses' = responses \cup {RequestValidationError(body)}
    /\ UNCHANGED <<pc, MODEL_ID, processor, model, loads, received>>

(* fault variant: the except branch of the handler rebinds MODEL_ID *)
score_handwriting_rebinding(body) ==
    /\ pc = "serving"
    /\ body \in inflight
    /\ ScoringRequest(body)
    /\ \E env \in EnvOutcomes :
          LET resp == Handle(MODEL_ID, model, body, env)
          IN  /\ responses' = responses \cup {resp}
              /\ MODEL_ID' = IF resp.status = 500 THEN FALLBACK_ID ELSE MODEL_ID
    /\ inflight' = inflight \ {body}
    /\ UNCHANGED <<pc, processor, model, loads, received>>

(* fault variant: inference updates the parameters of the model *)
score_handwriting_training(body) ==
    /\ pc = "serving"
    /\ body \in inflight
    /\ ScoringRequest(body)
    /\ \E env \in EnvOutcomes :
          responses' = responses \cup {Handle(MODEL_ID, model, body, env)}
    /\ model' = [model EXCEPT !.w = [k \in DOMAIN @ |->
                     IF @[k] < MaxLogit THEN @[k] + 1 ELSE 0 - MaxLogit]]
    /\ inflight' = inflight \ {body}
    /\ UNCHANGED <<pc, MODEL_ID, processor, loads, received>>

(* the handler, run to completion: it has no await *)
score_handwriting(body) ==
    /\ pc = "serving"
    /\ body \in inflight
    /\ ScoringRequest(body)
    /\ \E env \in EnvOutcomes :
          responses' = responses \cup {Handle(MODEL_ID, model, body, env)}
    /\ inflight' = inflight \ {body}
    /\ UNCHANGED <<pc, MODEL_ID, processor, model, loads, received>>

Next ==
    \/ LoadProcessorOk
    \/ LoadModelOk
    \/ LoadPrimaryFail
    \/ LoadFallbackProcessorOk
    \/ LoadFallbackModelOk
    \/ LoadFallbackFail
    \/ \E body \in Bodies : Receive(body)
    \/ \E body \in Bodies : RejectInvalid(body)
    \/ \E body \in Bodies : score_handwriting(body)

Spec == Init /\ [][Next]_vars

(***************************************************************************)
(* Properties                                                              *)
(***************************************************************************)

Contains(seq, s) == \E i \in DOMAIN seq : seq[i] = s

Succeeded == {r \in responses : r.status = 200}

PrimaryLoaded ==
    loads = <<<<PRIMARY_ID, "processor", TRUE>>, <<PRIMARY_ID, "model", TRUE>>>>

PrimaryFailed == \E i \in DOMAIN loads : loads[i][1] = PRIMARY_ID /\ ~loads[i][3]

FallbackFailed == \E i \in DOMAIN loads : loads[i][1] = FALLBACK_ID /\ ~loads[i][3]

FallbackTried == pc \in {"fallback_processor", "fallback_model"}
                 \/ \E i \in DOMAIN loads : loads[i][1] = FALLBACK_ID

ActiveId == IF PrimaryLoaded THEN PRIMARY_ID ELSE FALLBACK_ID

(* the score of column col of the single image row, computed from the     *)
(* weights of the loaded model                                             *)
ColumnScore(target, col) ==
    LET row == <<model.w[<<"png", target>>], model.w[<<"png", SCRIBBLE>>],
                 model.w[<<"png", EMPTY>>]>>
        p == softmax(<<row>>)[1][col]
    IN  round((p * 100) \div (PScale \div SScale), 2)

TypeOK ==
    /\ pc \in {"load_processor", "load_model", "fallback_processor",
               "fallback_model", "serving", "failed"}
    /\ MODEL_ID \in {PRIMARY_ID, FALLBACK_ID}
    /\ inflight \subseteq Bodies
    /\ received \in 0..MaxRequests

(* C1: every success response carries a score in the closed interval      *)
(* [0, 100] that is a whole number of hundredths (it equals its own        *)
(* rounding to 2 decimal places).                                          *)
C1_ScoreRangeRounded ==
    \A r \in Succeeded :
        /\ 0 <= r.score
        /\ r.score <= 100 * SScale
        /\ r.score % (SScale \div 100) = 0

(* a success whose unrounded score was not a whole number of hundredths *)
C1_Witness ==
    \E r \in Succeeded : r.locals.score % (SScale \div 100) # 0

(* C2: a request in which a step raised ends with status 500 whose detail  *)
(* is the message of that exception and carries no success body, and the   *)
(* process is still serving.                                               *)
C2_RaiseGives500 ==
    \A r \in responses :
        r.locals.raised # "" =>
            /\ r.status = 500
            /\ r.detail = r.locals.raised
            /\ r.feedback = <<>>
            /\ pc = "serving"

(* a failed decode has been answered and a later request succeeded *)
C2_Witness ==
    /\ \E r \in responses : r.status = 500 /\ r.locals.raised = "Incorrect padding"
    /\ \E r \in responses : r.status = 500 /\ r.locals.raised = "model failed"
    /\ pc = "serving"

(* C3 as stated: the only outcomes of POST /score are status 200 and       *)
(* status 500.                                                             *)
C3_Original ==
    \A r \in responses : r.status \in {200, 500}

(* C3 amended: a body with a missing or non-string field is rejected with  *)
(* status 422 before the handler runs; every other request ends with       *)
(* status 200 and a feedback, or with status 500 and the error text.       *)
C3_Amended ==
    \A r \in responses :
        LET valid == IsString(r.body.image_base64) /\ IsString(r.body.target_text)
        IN  /\ r.status \in {200, 422, 500}
            /\ r.status = 422 <=> ~valid
            /\ r.status = 422 => r.locals = NoLocals
            /\ r.status = 200 => r.feedback # <<>> /\ r.detail = ""
            /\ r.status = 500 => r.detail # "" /\ r.feedback = <<>>

(* a body without image_base64 was rejected and a decode failure got 500 *)
C3_Witness ==
    /\ \E r \in responses : r.status = 422 /\ r.body.image_base64 = MISSING
    /\ \E r \in responses : r.status = 500 /\ r.body.image_base64 = HELLO_B64

(* C4: while serving, the processor and the model come from the active     *)
(* identifier (the primary one if both primary loads succeeded, else the   *)
(* fallback one), and every success feedback contains that identifier.     *)
C4_FeedbackNamesActiveModel ==
    pc = "serving" =>
        /\ processor = ActiveId
        /\ model.id = ActiveId
        /\ MODEL_ID = ActiveId
        /\ \A r \in Succeeded : Contains(r.feedback, ActiveId)

(* the primary processor loaded, the primary model did not, and a request  *)
(* succeeded on the fallback                                               *)
C4_Witness ==
    /\ Len(loads) = 4
    /\ loads[1] = <<PRIMARY_ID, "processor", TRUE>>
    /\ loads[2] = <<PRIMARY_ID, "model", FALSE>>
    /\ \E r \in Succeeded : Contains(r.feedback, FALLBACK_ID)

(* C5: requests exist only once loading has completed; the fallback is     *)
(* tried exactly when a primary load failed; no load is repeated; after a  *)
(* fallback failure the process has failed and has served nothing.         *)
C5_LoadBeforeServe ==
    /\ (received > 0 \/ inflight # {} \/ responses # {}) =>
           pc = "serving" /\ processor = MODEL_ID /\ model.id = MODEL_ID
    /\ FallbackTried <=> PrimaryFailed
    /\ \A i, j \in DOMAIN loads :
           (loads[i][1] = loads[j][1] /\ loads[i][2] = loads[j][2]) => i = j
    /\ FallbackFailed <=> pc = "failed"
    /\ pc = "failed" => received = 0 /\ inflight = {} /\ responses = {}

(* both the primary and the fallback load failed *)
C5_Witness ==
    pc = "failed" /\ PrimaryFailed /\ FallbackFailed

(* C6: in every success the prompts are [target_text, scribble, empty] in  *)
(* that order and the score is the rounded, scaled softmax probability of  *)
(* column 0 of the image row.                                              *)
C6_TargetColumn ==
    \A r \in Succeeded :
        /\ r.locals.text_prompts = <<r.body.target_text, SCRIBBLE, EMPTY>>
        /\ r.score = ColumnScore(r.body.target_text, 1)

(* a success where the three columns would give three different scores *)
C6_Witness ==
    \E r \in Succeeded :
        /\ r.score = ColumnScore(r.body.target_text, 1)
        /\ r.score # ColumnScore(r.body.target_text, 2)
        /\ r.score # ColumnScore(r.body.target_text, 3)
        /\ ColumnScore(r.body.target_text, 2) # ColumnScore(r.body.target_text, 3)

C8_ProbsSumToOne ==
    \A r \in responses :
        r.locals.probs # <<>> =>
            LET row == r.locals.probs[1]
            IN  /\ Len(row) = 3
                /\ \A i \in DOMAIN row : row[i] >= 0
                /\ SumSeq(row) <= PScale
                /\ SumSeq(row) >= PScale - Len(row)

(* a softmax over three different logits *)
C8_Witness ==
    \E r \in Succeeded :
        LET row == r.locals.probs[1]
        IN  row[1] # row[2] /\ row[2] # row[3] /\ row[1] # row[3]

(* C9: once the process serves, no step changes MODEL_ID, the processor or *)
(* the model.                                                              *)
C9_GlobalsFrozen ==
    [][pc = "serving" => UNCHANGED globals]_vars

(* a success and a failure have both been answered by the primary model *)
C9_Witness ==
    /\ pc = "serving"
    /\ MODEL_ID = PRIMARY_ID
    /\ \E r \in responses : r.status = 200
    /\ \E r \in responses : r.status = 500

(* C10: whenever the prompt list has been built it has three elements, and *)
(* every success was scored by the softmax, never by the cosine branch.    *)
C10_NeverCosine ==
    \A r \in responses :
        /\ r.locals.method # "cosine"
        /\ r.locals.text_prompts # <<>> => Len(r.locals.text_prompts) = 3
        /\ r.status = 200 => r.locals.method = "softmax"

(* a success scored by the softmax over three prompts *)
C10_Witness ==
    \E r \in Succeeded :
        r.locals.method = "softmax" /\ Len(r.locals.text_prompts) = 3
====
